---- MODULE Spec2Model ----
(***************************************************************************)
(* Model of the in-browser project workbench: the virtual file system      *)
(* held in React state (src/App.tsx), the tool calls that write and read   *)
(* it, the preview iframe (src/components/Preview.tsx) and the preview     *)
(* bundler buildPreviewContent with its specifier resolver (src/utils.ts). *)
(*                                                                         *)
(* Text.  A JavaScript string is modelled as a sequence of lexemes, each   *)
(* lexeme standing for its literal characters ("import", "/", ".", "js").  *)
(* The alphabet is chosen so that every literal the code searches for      *)
(* ('/', '.', "import", "from", "<head>", a quote, white space ...) is one *)
(* lexeme and can never arise from two adjacent lexemes; a character class *)
(* of a regular expression is the set of lexemes whose characters are all  *)
(* in the class.  Splitting, joining, prefix tests and the regular         *)
(* expressions are computed on these sequences the way the code computes   *)
(* them on characters.                                                     *)
(***************************************************************************)
EXTENDS Naturals, Sequences, FiniteSets, TLC

VARIABLES
  phase,          \* which step of the running specification has been taken
  rsSource,       \* resolveModuleSpecifier: argument sourcePath
  rsSpecifier,    \* resolveModuleSpecifier: argument specifier
  rsResult,       \* resolveModuleSpecifier: returned string
  rwPath,         \* import rewrite: path of the JS/TS file
  rwStmts,        \* import rewrite: the statements the file is made of
  rwContent,      \* import rewrite: the file's content (the statements' text)
  rwOnce,         \* import rewrite: content after one rewrite
  rwTwice,        \* import rewrite: content after the rewrite of rwOnce
  bpFiles,        \* buildPreviewContent: argument files
  bpImports,      \* buildPreviewContent: the object imports it has built
  bpDoc,          \* buildPreviewContent: returned document
  files,          \* App: the state files of the last committed render
  selectedFile,   \* App: the state selectedFile of the last committed render
  updates,        \* App: state updates queued by setFiles / setSelectedFile
                  \*      and not yet rendered
  filesRef,       \* App: filesRef.current
  previewContent, \* App: previewContent of the last committed render
  srcdoc,         \* Preview: iframeRef.current.srcdoc
  refEffect,      \* App: the effect that copies files to filesRef is pending
  docEffect,      \* Preview: the effect that loads content is pending
  toolResult,     \* the last executeTool call: name, path and returned string
  written,        \* history: path -> content of the last returned write
  chatSession,    \* App: chatSessionRef.current holds a chat session
  isGenerating,   \* App: the state isGenerating, every setIsGenerating applied
  messages,       \* App: the state messages, every setMessages applied
  runPc,          \* handleSendMessage: where the run stands
  runs,           \* handleSendMessage: the calls made so far
  loopCount,      \* handleSendMessage: the local loopCount
  response,       \* handleSendMessage: the local response
  toolMsgId,      \* handleSendMessage: the local toolMsgId
  toolResponses,  \* handleSendMessage: the local toolResponses
  executed,       \* history: the calls executeTool ran in this round
  sent            \* the function responses of the pending sendMessage

resolveVars == <<rsSource, rsSpecifier, rsResult>>
rewriteVars == <<rwPath, rwStmts, rwContent, rwOnce, rwTwice>>
buildVars   == <<bpFiles, bpImports, bpDoc>>
appVars     == <<files, selectedFile, updates, filesRef, previewContent,
                 srcdoc, refEffect, docEffect, toolResult, written>>
chatVars    == <<chatSession, isGenerating, messages, runPc, runs, loopCount,
                 response, toolMsgId, toolResponses, executed, sent>>
vars == <<phase, resolveVars, rewriteVars, buildVars, appVars, chatVars>>

----------------------------------------------------------------------------
(* Strings as sequences of lexemes *)

EmptyStr == <<>>

StartsWith(s, c) == Len(s) > 0 /\ s[1] = c

\* Array.prototype.slice(0, -1)
ButLast(a) == IF Len(a) = 0 THEN <<>> ELSE SubSeq(a, 1, Len(a) - 1)

\* Array.prototype.pop()'s returned element (of a non-empty array)
Last(a) == a[Len(a)]

\* String.prototype.split(sep) for a one-lexeme separator: the pieces between
\* the separators, in order; a string without separator gives one piece.
RECURSIVE SplitFrom(_, _, _, _)
SplitFrom(s, sep, i, cur) ==
  IF i > Len(s) THEN <<cur>>
  ELSE IF s[i] = sep THEN <<cur>> \o SplitFrom(s, sep, i + 1, <<>>)
  ELSE SplitFrom(s, sep, i + 1, Append(cur, s[i]))

Split(s, sep) == SplitFrom(s, sep, 1, <<>>)

\* Array.prototype.join(sep)
RECURSIVE Join(_, _)
Join(parts, sep) ==
  IF Len(parts) = 0 THEN <<>>
  ELSE IF Len(parts) = 1 THEN parts[1]
  ELSE parts[1] \o <<sep>> \o Join(Tail(parts), sep)

\* Concatenation of a sequence of strings
RECURSIVE Concat(_)
Concat(ss) == IF Len(ss) = 0 THEN <<>> ELSE ss[1] \o Concat(Tail(ss))

\* All sequences over S of length at most n
RECURSIVE SeqsUpTo(_, _)
SeqsUpTo(S, n) ==
  IF n = 0 THEN {<<>>}
  ELSE LET shorter == SeqsUpTo(S, n - 1)
       IN  shorter \cup {Append(q, x) : q \in shorter, x \in S}

----------------------------------------------------------------------------
(* src/utils.ts: getLanguageFromFilename *)

getLanguageFromFilename(filename) ==
  LET ext == Last(Split(filename, "."))
  IN  CASE ext = <<"js">>   -> "javascript"
        [] ext = <<"jsx">>  -> "javascript"
        [] ext = <<"ts">>   -> "typescript"
        [] ext = <<"tsx">>  -> "typescript"
        [] ext = <<"html">> -> "html"
        [] ext = <<"css">>  -> "css"
        [] ext = <<"json">> -> "json"
        [] OTHER            -> "plaintext"

----------------------------------------------------------------------------
(* src/utils.ts: resolveModuleSpecifier *)

\* the for-loop over the parts of the specifier (lines 41-48)
\* a resolver that keeps a '..' met on an empty list
RECURSIVE ApplyPartsKeepingDotDot(_, _)
ApplyPartsKeepingDotDot(parts, resolvedParts) ==
  IF Len(parts) = 0 THEN resolvedParts
  ELSE LET part == parts[1]
       IN  IF part = <<".">>
           THEN ApplyPartsKeepingDotDot(Tail(parts), resolvedParts)
           ELSE IF part = <<".", ".">> /\ Len(resolvedParts) > 0
                THEN ApplyPartsKeepingDotDot(Tail(parts), ButLast(resolvedParts))
                ELSE ApplyPartsKeepingDotDot(Tail(parts),
                                             Append(resolvedParts, part))

RECURSIVE ApplyParts(_, _)
ApplyParts(parts, resolvedParts) ==
  IF Len(parts) = 0 THEN resolvedParts
  ELSE LET part == parts[1]
       IN  IF part = <<".">> THEN ApplyParts(Tail(parts), resolvedParts)
           ELSE IF part = <<".", ".">>
                THEN ApplyParts(Tail(parts),
                                IF Len(resolvedParts) > 0
                                THEN ButLast(resolvedParts)
                                ELSE resolvedParts)
                ELSE ApplyParts(Tail(parts), Append(resolvedParts, part))

resolveModuleSpecifier(sourcePath, specifier) ==
  IF ~StartsWith(specifier, ".") /\ ~StartsWith(specifier, "/")
  THEN specifier
  ELSE IF StartsWith(specifier, "/")
       THEN Tail(specifier)
       ELSE LET sourceDir == ButLast(Split(sourcePath, "/"))
                parts     == Split(specifier, "/")
            IN  Join(ApplyParts(parts, sourceDir), "/")

----------------------------------------------------------------------------
(* src/utils.ts: the two String.replace calls of buildPreviewContent that  *)
(* rewrite the import specifiers of one JS/TS file (lines 66-74)           *)

\* \s
IsSpace(c) == c \in {" ", "\n"}

\* ['"]
IsQuote(c) == c \in {"'", "\""}

\* [\.\/]
IsDotOrSlash(c) == c \in {".", "/"}

\* \s+ is greedy: the index after the run of white space starting at i
\* (i itself when s[i] is no white space)
RECURSIVE SpaceEnd(_, _)
SpaceEnd(s, i) ==
  IF i <= Len(s) /\ IsSpace(s[i]) THEN SpaceEnd(s, i + 1) ELSE i

\* index of the first quote at or after i, 0 when there is none
RECURSIVE NextQuote(_, _)
NextQuote(s, i) ==
  IF i > Len(s) THEN 0
  ELSE IF IsQuote(s[i]) THEN i
  ELSE NextQuote(s, i + 1)

\* (['"])([\.\/][^'"]+)(['"]) with the opening quote at q: the index of the
\* closing quote, 0 when the pattern does not match there.  [^'"]+ cannot
\* cross a quote, so the closing quote is the first quote after the body.
SpecifierEnd(s, q) ==
  IF /\ q + 2 <= Len(s)
     /\ IsQuote(s[q])
     /\ IsDotOrSlash(s[q + 1])
     /\ ~IsQuote(s[q + 2])
  THEN NextQuote(s, q + 3)
  ELSE 0

\* from\s+['"][\.\/][^'"]+['"] with "from" at j: the index of the opening
\* quote, 0 when the pattern does not match there
FromClauseAt(s, j) ==
  IF j + 1 <= Len(s) /\ s[j] = "from" /\ IsSpace(s[j + 1])
  THEN LET q == SpaceEnd(s, j + 1)
       IN  IF q <= Len(s) /\ SpecifierEnd(s, q) # 0 THEN q ELSE 0
  ELSE 0

\* [\s\S]*? is lazy: the first j >= from where the from-clause matches,
\* 0 when there is none up to the end of the text
RECURSIVE FirstFromClause(_, _)
FirstFromClause(s, from) ==
  IF from > Len(s) THEN 0
  ELSE IF FromClauseAt(s, from) # 0 THEN from
  ELSE FirstFromClause(s, from + 1)

\* One attempt of the static pattern
\*   ((?:import|export)\s+(?:[\s\S]*?from\s+)?['"])([\.\/][^'"]+)(['"])
\* with the keyword at i: the index of the opening quote of the specifier, 0
\* when the attempt fails.  The optional group is greedy, so the engine first
\* tries it (lazily extended up to the end of the text) and only then the
\* quote directly after the white space.
StaticMatchAt(s, i) ==
  IF i + 1 <= Len(s) /\ s[i] \in {"import", "export"} /\ IsSpace(s[i + 1])
  THEN LET w == SpaceEnd(s, i + 1)
           j == FirstFromClause(s, w)
       IN  IF j # 0 THEN FromClauseAt(s, j)
           ELSE IF w <= Len(s) /\ SpecifierEnd(s, w) # 0 THEN w
           ELSE 0
  ELSE 0

\* content.replace(/static pattern/g, ...): the leftmost match at or after
\* pos is replaced (only its specifier, p1 and p3 are put back) and the
\* search goes on after the match
RECURSIVE StaticFrom(_, _, _, _)
StaticFrom(path, s, pos, i) ==
  IF i > Len(s) THEN SubSeq(s, pos, Len(s))
  ELSE LET q == StaticMatchAt(s, i)
       IN  IF q = 0 THEN StaticFrom(path, s, pos, i + 1)
           ELSE LET e  == SpecifierEnd(s, q)
                    p2 == SubSeq(s, q + 1, e - 1)
                IN  SubSeq(s, pos, q)
                      \o resolveModuleSpecifier(path, p2)
                      \o <<s[e]>>
                      \o StaticFrom(path, s, e + 1, e + 1)

rewriteStaticImports(path, content) == StaticFrom(path, content, 1, 1)

\* One attempt of the dynamic pattern (import\(['"])([\.\/][^'"]+)(['"]\))
\* with "import" at i: the index of the opening quote, 0 when it fails
DynamicMatchAt(s, i) ==
  IF i + 2 <= Len(s) /\ s[i] = "import" /\ s[i + 1] = "("
  THEN LET e == SpecifierEnd(s, i + 2)
       IN  IF e # 0 /\ e + 1 <= Len(s) /\ s[e + 1] = ")" THEN i + 2 ELSE 0
  ELSE 0

RECURSIVE DynamicFrom(_, _, _, _)
DynamicFrom(path, s, pos, i) ==
  IF i > Len(s) THEN SubSeq(s, pos, Len(s))
  ELSE LET q == DynamicMatchAt(s, i)
       IN  IF q = 0 THEN DynamicFrom(path, s, pos, i + 1)
           ELSE LET e  == SpecifierEnd(s, q)
                    p2 == SubSeq(s, q + 1, e - 1)
                IN  SubSeq(s, pos, q)
                      \o resolveModuleSpecifier(path, p2)
                      \o <<s[e], s[e + 1]>>
                      \o DynamicFrom(path, s, e + 2, e + 2)

rewriteDynamicImports(path, content) == DynamicFrom(path, content, 1, 1)

\* path.match(/\.(js|jsx|ts|tsx)$/)
IsScriptPath(path) ==
  /\ Len(path) >= 2
  /\ path[Len(path) - 1] = "."
  /\ path[Len(path)] \in {"js", "jsx", "ts", "tsx"}

\* the body of the forEach that fills processedFiles (lines 63-78)
processFile(path, content) ==
  IF IsScriptPath(path)
  THEN rewriteDynamicImports(path, rewriteStaticImports(path, content))
  ELSE content

----------------------------------------------------------------------------
(* JavaScript objects with string keys (FileSystem, processedFiles,        *)
(* imports): a sequence of <<key, value>> pairs in insertion order, which  *)
(* is the order Object.entries and JSON.stringify follow for keys that are *)
(* no array indices.                                                       *)

ObjKeys(obj) == {obj[k][1] : k \in 1..Len(obj)}

ObjHas(obj, key) == key \in ObjKeys(obj)

\* obj[key] of a key that is present
ObjGet(obj, key) == obj[CHOOSE k \in 1..Len(obj) : obj[k][1] = key][2]

\* obj[key] = value: an existing key keeps its place, a new one goes last
ObjSet(obj, key, value) ==
  IF ObjHas(obj, key)
  THEN [k \in 1..Len(obj) |->
          IF obj[k][1] = key THEN <<key, value>> ELSE obj[k]]
  ELSE Append(obj, <<key, value>>)

----------------------------------------------------------------------------
(* src/utils.ts: INITIAL_FILES.  The shell document is written with one    *)
(* lexeme for each stretch of its text that no step of the build looks     *)
(* into; its tags <head> and <body> and its module script are spelled out. *)

ShellHtml ==
  << "<!DOCTYPE html>", "\n", "<html lang=en>", "\n",
     "<head>", "\n",
     "[meta charset, viewport, title]", "\n",
     "<style>", "[golden shell styles]", "</style>", "\n",
     "<script>", "[bridge api mock]", "</script>", "\n",
     "</head>", "\n",
     "<body>", "\n",
     "[div game-container, div game-stage]", "\n",
     "<!-- Main Entry Point -->", "\n",
     "<script", " ", "type=", "\"", "module", "\"", " ", "src=", "\"",
     ".", "/", "src", "/", "main", ".", "js", "\"", "></script>", "\n",
     "</body>", "\n", "</html>" >>

Str_index_html == <<"index", ".", "html">>

ProjectFile(path, content, language) ==
  [name |-> path, content |-> content, language |-> language]

INITIAL_FILES ==
  << <<Str_index_html, ProjectFile(Str_index_html, ShellHtml, "html")>> >>

----------------------------------------------------------------------------
(* src/utils.ts: buildPreviewContent, the import map (lines 60-109) *)

\* a build that encodes the files as they were written
processedFilesUnrewritten(fs) ==
  [k \in 1..Len(fs) |-> <<fs[k][1], fs[k][2].content>>]

\* processedFiles after the first forEach
processedFiles(fs) ==
  [k \in 1..Len(fs) |->
     <<fs[k][1], processFile(fs[k][1], fs[k][2].content)>>]

\* encodeURIComponent of one lexeme: the characters outside
\* A-Z a-z 0-9 - _ . ! ~ * ' ( ) are percent-encoded
EncodeLexeme(c) ==
  CASE c = " "  -> "%20"
    [] c = "\n" -> "%0A"
    [] c = "\"" -> "%22"
    [] c = "/"  -> "%2F"
    [] c = ";"  -> "%3B"
    [] c = "="  -> "%3D"
    [] c = "$"  -> "%24"
    [] c = "&"  -> "%26"
    [] c = "{"  -> "%7B"
    [] c = "}"  -> "%7D"
    [] c = ":"  -> "%3A"
    [] c = "<head>" -> "%3Chead%3E"
    [] c = "<body>" -> "%3Cbody%3E"
    [] OTHER    -> c

encodeURIComponent(str) == [k \in 1..Len(str) |-> EncodeLexeme(str[k])]

\* a lexeme that stands for one unpaired surrogate code unit (U+D800)
LoneSurrogate == "\\uD800"

\* encodeURIComponent throws URIError (URI malformed) for a string that
\* holds an unpaired surrogate
URIMalformed(str) == \E k \in 1..Len(str) : str[k] = LoneSurrogate

\* the template literal dataUri (line 95)
DataUri(content) ==
  <<"data:text/javascript;charset=utf-8,">> \o encodeURIComponent(content)

\* path.replace(/^(\.\/|\/)/, '')
CleanPath(path) ==
  IF Len(path) >= 2 /\ path[1] = "." /\ path[2] = "/"
  THEN SubSeq(path, 3, Len(path))
  ELSE IF StartsWith(path, "/") THEN Tail(path)
  ELSE path

\* cleanPath.replace(/\.(js|jsx|ts|tsx)$/, '')
StripExtension(cleanPath) ==
  IF IsScriptPath(cleanPath)
  THEN SubSeq(cleanPath, 1, Len(cleanPath) - 2)
  ELSE cleanPath

Url_preact   == <<"https://esm.sh/preact@10.19.6">>
Url_hooks    == <<"https://esm.sh/preact@10.19.6/hooks">>
Url_htm      == <<"https://esm.sh/htm@3.1.1">>
Url_confetti == <<"https://esm.sh/canvas-confetti@1.9.2">>
Url_gsap     == <<"https://esm.sh/gsap@3.12.5">>

Key_preact   == <<"preact">>
Key_hooks    == <<"preact", "/", "hooks">>
Key_htm      == <<"htm">>
Key_confetti == <<"canvas-confetti">>
Key_gsap     == <<"gsap">>

\* the object literal imports starts from (lines 82-88)
FixedImports ==
  << <<Key_preact, Url_preact>>,
     <<Key_hooks, Url_hooks>>,
     <<Key_htm, Url_htm>>,
     <<Key_confetti, Url_confetti>>,
     <<Key_gsap, Url_gsap>> >>

\* the assignments to imports for the stripped aliases (lines 102-107)
\* an alias loop that leaves out './' + stripped
AddTwoStrippedAliases(imp, cleanPath, dataUri) ==
  LET stripped == StripExtension(cleanPath)
  IN  IF stripped # cleanPath
      THEN ObjSet(ObjSet(imp, stripped, dataUri),
                  <<"/">> \o stripped, dataUri)
      ELSE imp

AddStrippedAliases(imp, cleanPath, dataUri) ==
  LET stripped == StripExtension(cleanPath)
  IN  IF stripped # cleanPath
      THEN ObjSet(ObjSet(ObjSet(imp, stripped, dataUri),
                         <<".", "/">> \o stripped, dataUri),
                  <<"/">> \o stripped, dataUri)
      ELSE imp

\* the body of the forEach over processedFiles (lines 91-108)
AddFileToImports(imp, path, content) ==
  IF path = Str_index_html \/ (Len(path) >= 2 /\ path[Len(path) - 1] = "."
                                /\ path[Len(path)] = "css")
  THEN imp
  ELSE IF IsScriptPath(path)
       THEN LET dataUri   == DataUri(content)
                cleanPath == CleanPath(path)
                full      == ObjSet(ObjSet(ObjSet(imp, cleanPath, dataUri),
                                           <<".", "/">> \o cleanPath, dataUri),
                                    <<"/">> \o cleanPath, dataUri)
            IN  AddStrippedAliases(full, cleanPath, dataUri)
       ELSE imp

RECURSIVE ImportsFrom(_, _, _)
ImportsFrom(imp, processed, k) ==
  IF k > Len(processed) THEN imp
  ELSE ImportsFrom(AddFileToImports(imp, processed[k][1], processed[k][2]),
                   processed, k + 1)

\* the object imports when the second forEach has ended
imports(fs) == ImportsFrom(FixedImports, processedFiles(fs), 1)


----------------------------------------------------------------------------
(* src/utils.ts: buildPreviewContent, the document (lines 52-58, 111-161) *)

\* the escapes JSON.stringify applies inside a string
JsonEscapeLexeme(c) ==
  CASE c = "\"" -> "\\\""
    [] c = "\\" -> "\\\\"
    [] c = "\n" -> "\\n"
    [] OTHER    -> c

JsonString(str) ==
  <<"\"">> \o [k \in 1..Len(str) |-> JsonEscapeLexeme(str[k])] \o <<"\"">>

RECURSIVE JsonEntries(_, _)
JsonEntries(obj, k) ==
  IF k > Len(obj) THEN <<>>
  ELSE <<"  ">> \o JsonString(obj[k][1]) \o <<":", " ">>
         \o JsonString(obj[k][2])
         \o (IF k < Len(obj) THEN <<",", "\n">> ELSE <<>>)
         \o JsonEntries(obj, k + 1)

\* JSON.stringify(obj, null, 2) of an object of strings
JsonStringify(obj) ==
  IF Len(obj) = 0 THEN <<"{}">>
  ELSE <<"{", "\n">> \o JsonEntries(obj, 1) \o <<"\n", "}">>

importMapScript(fs) ==
  <<"\n", "    ", "<script type=\"importmap\">", "\n", "      ", "{", "\n",
    "        ", "\"imports\":", " ">>
    \o JsonStringify(imports(fs))
    \o <<"\n", "      ", "}", "\n", "    ", "</script>", "\n", "  ">>

\* path.endsWith('.css')
EndsWithCss(path) ==
  Len(path) >= 2 /\ path[Len(path) - 1] = "." /\ path[Len(path)] = "css"

RECURSIVE CssFrom(_, _)
CssFrom(fs, k) ==
  IF k > Len(fs) THEN <<>>
  ELSE (IF EndsWithCss(fs[k][1])
        THEN <<"\n", "/*", " ">> \o fs[k][1] \o <<" ", "*/", "\n">>
               \o fs[k][2].content \o <<"\n">>
        ELSE <<>>)
         \o CssFrom(fs, k + 1)

cssContent(fs) == CssFrom(fs, 1)

styleTag(fs) ==
  IF cssContent(fs) # <<>>
  THEN <<"<style>">> \o cssContent(fs) \o <<"</style>">>
  ELSE <<>>

\* One attempt of
\*   /<script\s+type=["']module["']\s+src=["']([^"']+)["']><\/script>/
\* with "<script" at i: <<first, last, end>>, the indices of the first and
\* last lexeme of the src value and of the last lexeme of the match;
\* <<0, 0, 0>> when the attempt fails
ModuleScriptAt(s, i) ==
  LET a == SpaceEnd(s, i + 1)
      b == SpaceEnd(s, a + 4)
      e == NextQuote(s, b + 2)
  IN  IF /\ i + 1 <= Len(s) /\ s[i] = "<script" /\ IsSpace(s[i + 1])
         /\ a + 4 <= Len(s)
         /\ s[a] = "type=" /\ IsQuote(s[a + 1]) /\ s[a + 2] = "module"
         /\ IsQuote(s[a + 3]) /\ IsSpace(s[a + 4])
         /\ b + 2 <= Len(s)
         /\ s[b] = "src=" /\ IsQuote(s[b + 1]) /\ ~IsQuote(s[b + 2])
         /\ e # 0 /\ e + 1 <= Len(s) /\ s[e + 1] = "></script>"
      THEN <<b + 2, e - 1, e + 1>>
      ELSE <<0, 0, 0>>

\* a replace without the g flag: the first module script only
RECURSIVE ModuleScriptsFirstOnly(_, _, _)
ModuleScriptsFirstOnly(s, pos, i) ==
  IF i > Len(s) THEN SubSeq(s, pos, Len(s))
  ELSE LET m == ModuleScriptAt(s, i)
       IN  IF m[1] = 0 THEN ModuleScriptsFirstOnly(s, pos, i + 1)
           ELSE SubSeq(s, pos, i - 1)
                  \o <<"<script type=\"module\">", "import", " ", "\"">>
                  \o resolveModuleSpecifier(Str_index_html,
                                            SubSeq(s, m[1], m[2]))
                  \o <<"\"", "</script>">>
                  \o SubSeq(s, m[3] + 1, Len(s))

\* indexHtml.replace(/module script pattern/g, ...) (lines 128-134)
RECURSIVE ModuleScriptsFrom(_, _, _)
ModuleScriptsFrom(s, pos, i) ==
  IF i > Len(s) THEN SubSeq(s, pos, Len(s))
  ELSE LET m == ModuleScriptAt(s, i)
       IN  IF m[1] = 0 THEN ModuleScriptsFrom(s, pos, i + 1)
           ELSE SubSeq(s, pos, i - 1)
                  \o <<"<script type=\"module\">", "import", " ", "\"">>
                  \o resolveModuleSpecifier(Str_index_html,
                                            SubSeq(s, m[1], m[2]))
                  \o <<"\"", "</script>">>
                  \o ModuleScriptsFrom(s, m[3] + 1, m[3] + 1)

inlineModuleScripts(indexHtml) == ModuleScriptsFrom(indexHtml, 1, 1)

\* String.prototype.includes for a one-lexeme needle
Includes(s, needle) == \E k \in 1..Len(s) : s[k] = needle

IndexOf(s, needle) == CHOOSE k \in 1..Len(s) :
                        s[k] = needle /\ \A j \in 1..(k - 1) : s[j] # needle

\* concatenation of pieces[lo..hi]
RECURSIVE ConcatRange(_, _, _)
ConcatRange(pieces, lo, hi) ==
  IF lo > hi THEN <<>>
  ELSE IF lo = hi THEN pieces[lo]
  ELSE LET mid == (lo + hi) \div 2
       IN  ConcatRange(pieces, lo, mid) \o ConcatRange(pieces, mid + 1, hi)

\* repl[k] is a "$" that starts one of the patterns "$$", "$&", "$'" of a
\* replacement string (a "$" that ends a pattern starts none)
RECURSIVE StartsPattern(_, _)
StartsPattern(repl, k) ==
  /\ k < Len(repl)
  /\ repl[k] = "$"
  /\ repl[k + 1] \in {"$", "&", "'"}
  /\ ~(k > 1 /\ repl[k - 1] = "$" /\ StartsPattern(repl, k - 1))

\* The replacement text of String.prototype.replace(string, string): "$$"
\* gives "$", "$&" the matched text, "$'" the text after the match; any
\* other "$" is kept.
ExpandReplacement(repl, matched, after) ==
  ConcatRange(
    [k \in 1..Len(repl) |->
       IF StartsPattern(repl, k)
       THEN CASE repl[k + 1] = "$" -> <<"$">>
              [] repl[k + 1] = "&" -> matched
              [] repl[k + 1] = "'" -> after
       ELSE IF k > 1 /\ StartsPattern(repl, k - 1) THEN <<>>
       ELSE <<repl[k]>>],
    1, Len(repl))

\* s.replace(needle, repl) for a one-lexeme needle that s includes
ReplaceFirst(s, needle, repl) ==
  LET k     == IndexOf(s, needle)
      after == SubSeq(s, k + 1, Len(s))
  IN  SubSeq(s, 1, k - 1)
        \o ExpandReplacement(repl, <<needle>>, after)
        \o after

\* lines 136-140
injectHead(indexHtml, fs) ==
  IF Includes(indexHtml, "<head>")
  THEN ReplaceFirst(indexHtml, "<head>",
                    <<"<head>">> \o importMapScript(fs) \o styleTag(fs))
  ELSE importMapScript(fs) \o styleTag(fs) \o indexHtml

errorScript ==
  <<"\n", "    ", "<script>", "[window.onerror handler]", "</script>",
    "\n", "  ">>

\* lines 155-159
injectBody(indexHtml) ==
  IF Includes(indexHtml, "<body>")
  THEN ReplaceFirst(indexHtml, "<body>", <<"<body>">> \o errorScript)
  ELSE indexHtml \o errorScript

\* lines 53-58
entryDocument(fs) ==
  LET given == IF ObjHas(fs, Str_index_html)
               THEN ObjGet(fs, Str_index_html).content
               ELSE <<>>
  IN  IF given = <<>> THEN INITIAL_FILES[1][2].content ELSE given

buildPreviewContent(fs) ==
  injectBody(injectHead(inlineModuleScripts(entryDocument(fs)), fs))

\* buildPreviewContent(fs) throws instead of returning: the exception of
\* encodeURIComponent (line 95) is caught nowhere
buildThrows(fs) ==
  \E k \in 1..Len(fs) :
    /\ fs[k][1] # Str_index_html
    /\ ~EndsWithCss(fs[k][1])
    /\ IsScriptPath(fs[k][1])
    /\ URIMalformed(processedFiles(fs)[k][2])


----------------------------------------------------------------------------
(* Inputs *)

\* longest specifier enumerated for the resolver
MaxSpecLen == 4

\* most statements in one enumerated JS/TS file
MaxStmts == 2

Str_x_js       == <<"x", ".", "js">>
Str_src_a_b_js == <<"src", "/", "a", "/", "b", ".", "js">>
Str_src_m_js   == <<"src", "/", "m", ".", "js">>

SourcePaths == {Str_x_js, Str_src_a_b_js, Str_src_m_js}

\* the specifiers of the resolver's documented examples
ExampleSpecifiers ==
  { <<".", "/", "c", ".", "js">>,
    <<".", ".", "/", "c", ".", "js">>,
    <<".", ".", "/", ".", ".", "/", "y", ".", "js">>,
    <<"/", "z", ".", "js">>,
    <<"preact">> }

Specifiers == SeqsUpTo({".", "/", "c"}, MaxSpecLen) \cup ExampleSpecifiers

\* the specifiers written in the enumerated files
FileSpecifiers ==
  { <<".", "/", "a", ".", "js">>,
    <<".", ".", "/", "b", ".", "js">>,
    <<"/", "c", ".", "js">>,
    <<"/", "/", "d", ".", "js">>,
    <<"preact">> }

\* A statement of an enumerated file.  kind says which text surrounds the
\* quoted specifier:
\*   importFrom   import x from 'S';
\*   importSide   import 'S';
\*   exportFrom   export * from 'S';
\*   dynamic      import('S');
\*   exportConst  export const s = "copied from 'S'";
\*   logString    log("data from 'S'");
ImportKinds == {"importFrom", "importSide", "exportFrom", "dynamic"}
OtherKinds  == {"exportConst", "logString"}

Statements ==
  [kind : ImportKinds, quote : {"'", "\""}, spec : FileSpecifiers]
    \cup [kind : OtherKinds, quote : {"'"}, spec : FileSpecifiers]

\* the text of a statement whose quoted string holds body
StmtText(st, body) ==
  LET quoted == <<st.quote>> \o body \o <<st.quote>>
  IN  CASE st.kind = "importFrom" ->
             <<"import", " ", "x", " ", "from", " ">> \o quoted \o <<";">>
        [] st.kind = "importSide" ->
             <<"import", " ">> \o quoted \o <<";">>
        [] st.kind = "exportFrom" ->
             <<"export", " ", "*", " ", "from", " ">> \o quoted \o <<";">>
        [] st.kind = "dynamic" ->
             <<"import", "(">> \o quoted \o <<")", ";">>
        [] st.kind = "exportConst" ->
             <<"export", " ", "const", " ", "s", " ", "=", " ", "\"",
               "copied", " ", "from", " ">> \o quoted \o <<"\"", ";">>
        [] st.kind = "logString" ->
             <<"log", "(", "\"", "data", " ", "from", " ">>
               \o quoted \o <<"\"", ")", ";">>

RECURSIVE FileText(_)
FileText(stmts) ==
  IF Len(stmts) = 0 THEN <<>>
  ELSE StmtText(stmts[1], stmts[1].spec) \o FileText(Tail(stmts))

\* most files created besides index.html in an enumerated file system
MaxFiles == 2

Str_src_main_js    == <<"src", "/", "main", ".", "js">>
Str_src_a_js       == <<"src", "/", "a", ".", "js">>
Str_src_a_ts       == <<"src", "/", "a", ".", "ts">>
Str_preact_js      == <<"preact", ".", "js">>
Str_htm_ts         == <<"htm", ".", "ts">>
Str_preact_hooks_js == <<"preact", "/", "hooks", ".", "js">>
Str_style_css      == <<"style", ".", "css">>
Str_data_json      == <<"data", ".", "json">>
Str_src_a_js_js    == <<"src", "/", "a", ".", "js", ".", "js">>

BuildPaths ==
  { Str_src_main_js, Str_src_a_js, Str_src_a_ts, Str_preact_js, Str_htm_ts,
    Str_preact_hooks_js, Str_style_css, Str_data_json, Str_src_a_js_js }

\* import x from './a.js';
Text_import_a == <<"import", " ", "x", " ", "from", " ", "'", ".", "/", "a",
                   ".", "js", "'", ";">>
\* text without import
Text_plain    == <<"text">>

\* import './a.js';import x from './a.js';
Text_side_then_from ==
  FileText(<< [kind |-> "importSide", quote |-> "'",
               spec |-> <<".", "/", "a", ".", "js">>],
              [kind |-> "importFrom", quote |-> "'",
               spec |-> <<".", "/", "a", ".", "js">>] >>)

\* import x from './a';
Text_import_stripped ==
  FileText(<< [kind |-> "importFrom", quote |-> "'",
               spec |-> <<".", "/", "a">>] >>)

\* const s = '\uD800';
Text_surrogate ==
  <<"const", " ", "s", " ", "=", " ", "'", LoneSurrogate, "'", ";">>

\* a style sheet whose comment names the body tag
Text_css_body == <<"/*", " ", "styles of ", "<body>", " ", "*/">>

\* a style sheet that holds the characters $&
Text_css_dollar ==
  <<".price::before { content: ", "\"", "$", "&", "\"", " }">>

\* the contents given to a path of an enumerated file system
BuildContentsOf(path) ==
  CASE path = Str_src_main_js ->
         {Text_import_a, Text_plain, Text_side_then_from,
          Text_import_stripped, Text_surrogate}
    [] path = Str_src_a_js -> {Text_import_a, Text_plain}
    [] path = Str_style_css -> {Text_plain, Text_css_body, Text_css_dollar}
    [] OTHER -> {Text_plain}

BuildContents == UNION {BuildContentsOf(path) : path \in BuildPaths}

\* <script type="module" src="S"></script> written with the quote q
ModuleScriptTag(q, S) ==
  <<"<script", " ", "type=", q, "module", q, " ", "src=", q>> \o S
    \o <<q, "></script>">>

\* an entry document without head and body tags, with two module scripts
BareDoc ==
  <<"<!DOCTYPE html>", "\n">>
    \o ModuleScriptTag("\"", <<"/", "src", "/", "a", ".", "js">>)
    \o <<"\n">>
    \o ModuleScriptTag("\"", <<".", ".", "/", "src", "/", "main", ".", "js">>)

\* an entry document with a body tag and no head tag
BodyOnlyDoc ==
  <<"<body>", "\n", "<div id=app></div>", "\n">>
    \o ModuleScriptTag("'", <<".", "/", "src", "/", "main", ".", "js">>)
    \o <<"\n", "</body>">>

\* the file systems before any created file: the initial one, one without
\* index.html, one whose index.html is empty, two with another document
EntryVariants ==
  { INITIAL_FILES,
    <<>>,
    << <<Str_index_html, ProjectFile(Str_index_html, <<>>, "html")>> >>,
    << <<Str_index_html, ProjectFile(Str_index_html, BareDoc, "html")>> >>,
    << <<Str_index_html, ProjectFile(Str_index_html, BodyOnlyDoc, "html")>> >> }

\* the entry create_file leaves for a path
CreatedEntry(path, content) ==
  <<path, ProjectFile(path, content, getLanguageFromFilename(path))>>

HasDistinctKeys(obj) ==
  \A i, j \in 1..Len(obj) : obj[i][1] = obj[j][1] => i = j

CreatedFileLists ==
  { fl \in SeqsUpTo(UNION {{CreatedEntry(p, c) : c \in BuildContentsOf(p)} :
                              p \in BuildPaths},
                    MaxFiles) : HasDistinctKeys(fl) }

----------------------------------------------------------------------------
(* Specification SpecResolve: resolveModuleSpecifier on enumerated inputs *)

IdleResolve == rsSource = <<>> /\ rsSpecifier = <<>> /\ rsResult = <<>>
IdleRewrite ==
  /\ rwPath = <<>> /\ rwStmts = <<>> /\ rwContent = <<>>
  /\ rwOnce = <<>> /\ rwTwice = <<>>

IdleBuild == bpFiles = <<>> /\ bpImports = <<>> /\ bpDoc = <<>>

NoCall == [name |-> "none", path |-> <<>>, result |-> <<>>]

IdleApp ==
  /\ files = <<>> /\ selectedFile = <<>> /\ updates = <<>>
  /\ filesRef = <<>> /\ previewContent = <<>> /\ srcdoc = <<>>
  /\ refEffect = FALSE /\ docEffect = FALSE
  /\ toolResult = NoCall /\ written = <<>>

\* a reply without text and without function calls
NoResponse == [text |-> FALSE, functionCalls |-> <<>>]

IdleChat ==
  /\ chatSession = FALSE /\ isGenerating = FALSE /\ messages = <<>>
  /\ runPc = "idle" /\ runs = 0 /\ loopCount = 0
  /\ response = NoResponse /\ toolMsgId = 0
  /\ toolResponses = <<>> /\ executed = <<>> /\ sent = <<>>

InitResolve ==
  /\ phase = "input"
  /\ rsSource \in SourcePaths
  /\ rsSpecifier \in Specifiers
  /\ rsResult = <<>>
  /\ IdleRewrite
  /\ IdleBuild
  /\ IdleApp
  /\ IdleChat

Resolve ==
  /\ phase = "input"
  /\ rsResult' = resolveModuleSpecifier(rsSource, rsSpecifier)
  /\ phase' = "resolved"
  /\ UNCHANGED <<rsSource, rsSpecifier, rewriteVars, buildVars, appVars, chatVars>>

NextResolve == Resolve

SpecResolve == InitResolve /\ [][NextResolve]_vars

----------------------------------------------------------------------------
(* Specification SpecRewrite: the import rewrite of one JS/TS file, applied *)
(* to the file and then to its own output                                   *)

InitRewrite ==
  /\ phase = "input"
  /\ rwPath \in {Str_x_js, Str_src_m_js}
  /\ rwStmts \in SeqsUpTo(Statements, MaxStmts)
  /\ rwContent = FileText(rwStmts)
  /\ rwOnce = <<>>
  /\ rwTwice = <<>>
  /\ IdleResolve
  /\ IdleBuild
  /\ IdleApp
  /\ IdleChat

Rewrite ==
  /\ phase = "input"
  /\ rwOnce' = processFile(rwPath, rwContent)
  /\ phase' = "rewritten"
  /\ UNCHANGED <<rwPath, rwStmts, rwContent, rwTwice, resolveVars, buildVars, appVars, chatVars>>

RewriteAgain ==
  /\ phase = "rewritten"
  /\ rwTwice' = processFile(rwPath, rwOnce)
  /\ phase' = "rewrittenTwice"
  /\ UNCHANGED <<rwPath, rwStmts, rwContent, rwOnce, resolveVars, buildVars, appVars, chatVars>>

NextRewrite == Rewrite \/ RewriteAgain

SpecRewrite == InitRewrite /\ [][NextRewrite]_vars

----------------------------------------------------------------------------
(* Specification SpecBuild: buildPreviewContent on enumerated file systems: *)
(* the initial files followed by files created in some order               *)

InitBuild ==
  /\ phase = "input"
  /\ bpFiles \in {entry \o extra : entry \in EntryVariants,
                                     extra \in CreatedFileLists}
  /\ bpImports = <<>>
  /\ bpDoc = <<>>
  /\ IdleResolve
  /\ IdleRewrite
  /\ IdleApp
  /\ IdleChat

Build ==
  /\ phase = "input"
  /\ IF buildThrows(bpFiles)
     THEN /\ bpImports' = <<>>
          /\ bpDoc' = <<>>
          /\ phase' = "thrown"
     ELSE /\ bpImports' = imports(bpFiles)
          /\ bpDoc' = buildPreviewContent(bpFiles)
          /\ phase' = "built"
  /\ UNCHANGED <<bpFiles, resolveVars, rewriteVars, appVars, chatVars>>

NextBuild == Build

SpecBuild == InitBuild /\ [][NextBuild]_vars

----------------------------------------------------------------------------
(* Specification Spec: the App component.  React keeps the state (files,    *)
(* selectedFile) of the last committed render; setFiles and setSelectedFile *)
(* queue updates that the next render applies in order; the effects of a    *)
(* commit (filesRef.current = files, iframe.srcdoc = content) run after it, *)
(* at the latest when the next render starts.  Tool calls are made by the   *)
(* chat loop between renders; editor and explorer events are handled by the *)
(* closures of the last committed render.                                   *)

\* most state updates queued and not yet rendered
MaxPending == 2

AppPaths    == {Str_index_html, Str_src_main_js, Str_style_css}
AppContents == {Text_import_a, Text_plain}

\* the contents written to a path
ContentsFor(path) ==
  IF path = Str_style_css THEN {Text_plain} ELSE AppContents

\* prev => ({...prev, [path]: {name: path, content, language}})
CreateUpdate(path, content) ==
  [op |-> "create", path |-> path, content |-> content]

\* prev => ({...prev, [selectedFile]: {...prev[selectedFile], content}})
EditUpdate(path, content) ==
  [op |-> "edit", path |-> path, content |-> content]

\* setSelectedFile(filename)
SelectUpdate(path) ==
  [op |-> "select", path |-> path, content |-> <<>>]

\* an update that spreads the files of the last render, not prev
ApplyToRendered(prev, u) ==
  CASE u.op = "create" ->
         ObjSet(files, u.path,
                ProjectFile(u.path, u.content, getLanguageFromFilename(u.path)))
    [] u.op = "edit" ->
         ObjSet(files, u.path,
                IF ObjHas(files, u.path)
                THEN [ObjGet(files, u.path) EXCEPT !.content = u.content]
                ELSE [content |-> u.content])
    [] OTHER -> prev

\* the files one queued update gives from prev
ApplyToFiles(prev, u) ==
  CASE u.op = "create" ->
         ObjSet(prev, u.path,
                ProjectFile(u.path, u.content, getLanguageFromFilename(u.path)))
    [] u.op = "edit" ->
         ObjSet(prev, u.path,
                IF ObjHas(prev, u.path)
                THEN [ObjGet(prev, u.path) EXCEPT !.content = u.content]
                ELSE [content |-> u.content])
    [] OTHER -> prev

\* a create_file that selects the path written as './' + path
ApplyToSelectedPrefixed(prev, u) ==
  IF u.op = "create" THEN <<".", "/">> \o u.path
  ELSE IF u.op = "select" THEN u.path ELSE prev

\* the selectedFile one queued update gives; create_file calls
\* setSelectedFile(path) right after setFiles
ApplyToSelected(prev, u) ==
  IF u.op \in {"create", "select"} THEN u.path ELSE prev

RECURSIVE FilesAfter(_, _)
FilesAfter(prev, queue) ==
  IF Len(queue) = 0 THEN prev
  ELSE FilesAfter(ApplyToFiles(prev, queue[1]), Tail(queue))

RECURSIVE SelectedAfter(_, _)
SelectedAfter(prev, queue) ==
  IF Len(queue) = 0 THEN prev
  ELSE SelectedAfter(ApplyToSelected(prev, queue[1]), Tail(queue))

\* what the history variable holds after a returned write
Record(hist, path, content) ==
  [p \in DOMAIN hist \cup {path} |-> IF p = path THEN content ELSE hist[p]]

\* JSON.stringify of an array of strings
RECURSIVE JsonArrayItems(_, _)
JsonArrayItems(obj, k) ==
  IF k > Len(obj) THEN <<>>
  ELSE JsonString(obj[k][1])
         \o (IF k < Len(obj) THEN <<",">> ELSE <<>>)
         \o JsonArrayItems(obj, k + 1)

\* JSON.stringify(Object.keys(obj))
JsonKeys(obj) == <<"[">> \o JsonArrayItems(obj, 1) \o <<"]">>

ReadOnlyError ==
  <<"Error: index.html is READ-ONLY. You cannot modify the Golden Shell.">>

CreatedMessage(path) ==
  <<"File", " ", "'">> \o path \o <<"'", " ", "created successfully.">>

NotFoundError(path) ==
  <<"Error executing tool 'read_file': ", "File", " ", "'">> \o path
    \o <<"'", " ", "not found.">>

Init ==
  /\ phase = "app"
  /\ files = INITIAL_FILES
  /\ selectedFile = Str_index_html
  /\ updates = <<>>
  /\ filesRef = INITIAL_FILES
  /\ previewContent = buildPreviewContent(INITIAL_FILES)
  /\ srcdoc = buildPreviewContent(INITIAL_FILES)
  /\ refEffect = FALSE
  /\ docEffect = FALSE
  /\ toolResult = NoCall
  /\ written = [p \in {Str_index_html} |-> ShellHtml]
  /\ IdleResolve
  /\ IdleRewrite
  /\ IdleBuild
  /\ IdleChat

pureVars == <<phase, resolveVars, rewriteVars, buildVars>>

\* a create_file that takes every path
EveryPathWritable(path) == FALSE

\* path === 'index.html'
IsReadOnly(path) == path = Str_index_html

\* executeTool('create_file', {path, content})
CreateFile(path, content) ==
  /\ Len(updates) < MaxPending
  /\ IF IsReadOnly(path)
     THEN /\ toolResult' = [name |-> "create_file", path |-> path,
                            result |-> ReadOnlyError]
          /\ UNCHANGED <<updates, written>>
     ELSE /\ updates' = Append(updates, CreateUpdate(path, content))
          /\ toolResult' = [name |-> "create_file", path |-> path,
                            result |-> CreatedMessage(path)]
          /\ written' = Record(written, path, content)
  /\ UNCHANGED <<files, selectedFile, filesRef, previewContent, srcdoc,
                 refEffect, docEffect, pureVars>>

\* executeTool('read_file', {path})
ReadFile(path) ==
  /\ toolResult' = [name |-> "read_file", path |-> path,
                    result |-> IF ObjHas(filesRef, path)
                               THEN ObjGet(filesRef, path).content
                               ELSE NotFoundError(path)]
  /\ UNCHANGED <<files, selectedFile, updates, filesRef, previewContent,
                 srcdoc, refEffect, docEffect, written, pureVars>>

\* executeTool('list_files', {})
ListFiles ==
  /\ toolResult' = [name |-> "list_files", path |-> <<>>,
                    result |-> JsonKeys(filesRef)]
  /\ UNCHANGED <<files, selectedFile, updates, filesRef, previewContent,
                 srcdoc, refEffect, docEffect, written, pureVars>>

\* handleFileChange(newContent), called by the editor's textarea
HandleFileChange(newContent) ==
  /\ Len(updates) < MaxPending
  /\ IF selectedFile # <<>> /\ selectedFile # Str_index_html
     THEN /\ updates' = Append(updates, EditUpdate(selectedFile, newContent))
          /\ written' = Record(written, selectedFile, newContent)
     ELSE UNCHANGED <<updates, written>>
  /\ UNCHANGED <<files, selectedFile, filesRef, previewContent, srcdoc,
                 refEffect, docEffect, toolResult, pureVars, chatVars>>

\* handleFileSelect(filename), called by the explorer for a listed file
HandleFileSelect(filename) ==
  /\ Len(updates) < MaxPending
  /\ ObjHas(files, filename)
  /\ updates' = Append(updates, SelectUpdate(filename))
  /\ UNCHANGED <<files, selectedFile, filesRef, previewContent, srcdoc,
                 refEffect, docEffect, toolResult, written, pureVars, chatVars>>

\* the useEffect of App with dependency [files]
RunRefEffect(fs) == fs

\* the useEffect of Preview with dependency [content]
RunDocEffect(content) == content

\* a Preview whose effect runs on mount only
QueuedOnMountOnly(before, after) == FALSE

\* Preview's effect is queued by a commit whose content differs from the
\* content of the commit before
DocEffectQueued(before, after) == after # before

\* One render of App and its commit.  The effects still pending from the
\* commit before run first; the queued updates are applied in order;
\* previewContent is rebuilt; the effects whose dependencies changed are
\* queued.
Render ==
  /\ updates # <<>>
  /\ files' = FilesAfter(files, updates)
  /\ selectedFile' = SelectedAfter(selectedFile, updates)
  /\ updates' = <<>>
  /\ previewContent' = buildPreviewContent(files')
  /\ filesRef' = IF refEffect THEN RunRefEffect(files) ELSE filesRef
  /\ srcdoc' = IF docEffect THEN RunDocEffect(previewContent) ELSE srcdoc
  /\ refEffect' = (\E k \in 1..Len(updates) : updates[k].op \in {"create", "edit"})
  /\ docEffect' = DocEffectQueued(previewContent, previewContent')
  /\ UNCHANGED <<toolResult, written, pureVars, chatVars>>

\* the pending effects of the last commit run
FlushEffects ==
  /\ refEffect \/ docEffect
  /\ filesRef' = IF refEffect THEN RunRefEffect(files) ELSE filesRef
  /\ srcdoc' = IF docEffect THEN RunDocEffect(previewContent) ELSE srcdoc
  /\ refEffect' = FALSE
  /\ docEffect' = FALSE
  /\ UNCHANGED <<files, selectedFile, updates, previewContent, toolResult,
                 written, pureVars, chatVars>>

\* handleRefresh of Preview, called by the refresh button
HandleRefresh ==
  /\ srcdoc' = previewContent
  /\ UNCHANGED <<files, selectedFile, updates, filesRef, previewContent,
                 refEffect, docEffect, toolResult, written, pureVars, chatVars>>

Next ==
  \/ \E path \in AppPaths : \E content \in ContentsFor(path) :
       CreateFile(path, content) /\ UNCHANGED chatVars
  \/ \E path \in AppPaths : ReadFile(path) /\ UNCHANGED chatVars
  \/ ListFiles /\ UNCHANGED chatVars
  \/ \E newContent \in ContentsFor(selectedFile) : HandleFileChange(newContent)
  \/ \E filename \in AppPaths : HandleFileSelect(filename)
  \/ Render
  \/ FlushEffects
  \/ HandleRefresh

Spec == Init /\ [][Next]_vars

----------------------------------------------------------------------------
(* Specification SpecChat: handleSendMessage, one run at a time.  A run is  *)
(* cut where the code awaits: the steps are the call itself, the settling   *)
(* of a pending sendMessage, one executeTool call, and the sending of a     *)
(* round's tool responses.  isGenerating and messages hold the value the    *)
(* setters called so far give (setMessages appends in call order); a        *)
(* message is kept as its id, its role and the status of its tool calls    *)
(* ("" when it has none).  The App renders                                 *)
(* between the steps of a run; the preview is not part of this            *)
(* specification: previewContent, srcdoc and docEffect stay idle, and so   *)
(* does toolResult, the tool responses being kept in toolResponses.        *)

MAX_LOOPS == 15

MaxCalls == 2
MaxRuns == 1

Str_delete_file == "delete_file"

ToolCall(name, path, content) ==
  [name |-> name, path |-> path, content |-> content]

\* the function calls a reply can hold
ChatCalls ==
  { ToolCall("create_file", Str_src_main_js, Text_plain),
    ToolCall("create_file", Str_index_html, Text_plain),
    ToolCall("read_file", Str_src_main_js, <<>>),
    ToolCall("list_files", <<>>, <<>>),
    ToolCall("update_project_state", <<>>, <<>>),
    ToolCall(Str_delete_file, Str_src_main_js, <<>>) }

\* response.functionCalls, each call with the id the service gave it
CallLists ==
  UNION { { [k \in 1..n |-> [id |-> k, call |-> cs[k]]] :
              cs \in [1..n -> ChatCalls] } : n \in 1..MaxCalls }

\* the replies of the chat service: text is whether the parts of the first
\* candidate hold any text
Responses ==
  { [text |-> t, functionCalls |-> <<>>] : t \in BOOLEAN }
    \cup { [text |-> FALSE, functionCalls |-> c] : c \in CallLists }

Message(id, role, status) == [id |-> id, role |-> role, status |-> status]

StateSaved ==
  <<"Project state saved successfully. Context persisted for next turn.">>

UnknownToolError(name) == <<"Error: Unknown tool '", name, "'">>

\* create_file with a path other than index.html calls setFiles
WritesFile(call) == call.name = "create_file" /\ ~IsReadOnly(call.path)

\* the string executeTool(call.name, call.args) returns
executeTool(call) ==
  CASE call.name = "create_file" ->
         IF IsReadOnly(call.path) THEN ReadOnlyError
         ELSE CreatedMessage(call.path)
    [] call.name = "read_file" ->
         IF ObjHas(filesRef, call.path) THEN ObjGet(filesRef, call.path).content
         ELSE NotFoundError(call.path)
    [] call.name = "list_files" -> JsonKeys(filesRef)
    [] call.name = "update_project_state" -> StateSaved
    [] OTHER -> UnknownToolError(call.name)

\* a loop that runs while loopCount <= MAX_LOOPS
ContinueLoopInclusive(resp, n) ==
  /\ Len(resp.functionCalls) > 0
  /\ n <= MAX_LOOPS

\* response.functionCalls && response.functionCalls.length > 0
\*   && loopCount < MAX_LOOPS
ContinueLoop(resp, n) ==
  /\ Len(resp.functionCalls) > 0
  /\ n < MAX_LOOPS

\* a run that calls setIsGenerating(false) as the last statement of try
isGeneratingAfterTryOnly(outcome, before) ==
  IF outcome = "returned" THEN FALSE ELSE before

\* isGenerating once the run has left try by returning or through catch:
\* finally calls setIsGenerating(false)
isGeneratingAfter(outcome, before) == FALSE

InitChat ==
  /\ phase = "chat"
  /\ files = INITIAL_FILES
  /\ selectedFile = Str_index_html
  /\ updates = <<>>
  /\ filesRef = INITIAL_FILES
  /\ previewContent = <<>>
  /\ srcdoc = <<>>
  /\ refEffect = FALSE
  /\ docEffect = FALSE
  /\ toolResult = NoCall
  /\ written = [p \in {Str_index_html} |-> ShellHtml]
  /\ chatSession \in BOOLEAN
  /\ isGenerating = FALSE
  /\ messages = IF chatSession THEN <<>> ELSE <<Message(1, "system", "")>>
  /\ runPc = "idle"
  /\ runs = 0
  /\ loopCount = 0
  /\ response = NoResponse
  /\ toolMsgId = 0
  /\ toolResponses = <<>>
  /\ executed = <<>>
  /\ sent = <<>>
  /\ IdleResolve
  /\ IdleRewrite
  /\ IdleBuild

\* handleSendMessage(text) up to its first await; ChatInterface calls it
\* while isGenerating is false
HandleSendMessage ==
  /\ runPc = "idle"
  /\ ~isGenerating
  /\ runs < MaxRuns
  /\ runs' = runs + 1
  /\ IF ~chatSession
     THEN UNCHANGED <<isGenerating, messages, runPc, loopCount, response,
                      toolMsgId, toolResponses, executed, sent>>
     ELSE /\ messages' = Append(messages, Message(Len(messages) + 1, "user", ""))
          /\ isGenerating' = TRUE
          /\ sent' = <<>>
          /\ loopCount' = 0
          /\ response' = NoResponse
          /\ toolMsgId' = 0
          /\ toolResponses' = <<>>
          /\ executed' = <<>>
          /\ runPc' = "await"
  /\ UNCHANGED <<chatSession, appVars, pureVars>>

\* the pending sendMessage resolves with resp: the loop test and, when it
\* fails, the reply text, the end of try and finally
ResolveRequest(resp) ==
  /\ runPc = "await"
  /\ response' = resp
  /\ sent' = <<>>
  /\ IF ContinueLoop(resp, loopCount)
     THEN /\ loopCount' = loopCount + 1
          /\ toolMsgId' = Len(messages) + 1
          /\ messages' = Append(messages, Message(toolMsgId', "assistant", "executing"))
          /\ toolResponses' = <<>>
          /\ executed' = <<>>
          /\ runPc' = "exec"
          /\ UNCHANGED isGenerating
     ELSE /\ messages' = IF resp.text
                         THEN Append(messages,
                                     Message(Len(messages) + 1, "assistant", ""))
                         ELSE messages
          /\ isGenerating' = isGeneratingAfter("returned", isGenerating)
          /\ runPc' = "idle"
          /\ UNCHANGED <<loopCount, toolMsgId, toolResponses, executed>>
  /\ UNCHANGED <<chatSession, runs, appVars, pureVars>>

\* the pending sendMessage rejects: catch and finally
RejectRequest ==
  /\ runPc = "await"
  /\ messages' = Append(messages, Message(Len(messages) + 1, "system", ""))
  /\ isGenerating' = isGeneratingAfter("caught", isGenerating)
  /\ runPc' = "idle"
  /\ sent' = <<>>
  /\ UNCHANGED <<chatSession, runs, loopCount, response, toolMsgId,
                 toolResponses, executed, appVars, pureVars>>

\* one pass of for (const call of calls): executeTool and the push of its
\* tool response
ExecuteCall ==
  /\ runPc = "exec"
  /\ Len(toolResponses) < Len(response.functionCalls)
  /\ LET fc == response.functionCalls[Len(toolResponses) + 1]
     IN  /\ WritesFile(fc.call) => Len(updates) < MaxPending
         /\ IF WritesFile(fc.call)
            THEN /\ updates' = Append(updates,
                                      CreateUpdate(fc.call.path, fc.call.content))
                 /\ written' = Record(written, fc.call.path, fc.call.content)
            ELSE UNCHANGED <<updates, written>>
         /\ toolResponses' = Append(toolResponses,
                                    [name |-> fc.call.name,
                                     result |-> executeTool(fc.call),
                                     id |-> fc.id])
         /\ executed' = Append(executed, fc)
  /\ UNCHANGED <<chatSession, isGenerating, messages, runPc, runs, loopCount,
                 response, toolMsgId, sent>>
  /\ UNCHANGED <<files, selectedFile, filesRef, previewContent, srcdoc,
                 refEffect, docEffect, toolResult, pureVars>>

\* the end of a round: the tool message is marked completed and the tool
\* responses are sent
SendToolResponses ==
  /\ runPc = "exec"
  /\ Len(toolResponses) = Len(response.functionCalls)
  /\ messages' = [k \in 1..Len(messages) |->
                    IF messages[k].id = toolMsgId
                    THEN [messages[k] EXCEPT !.status = "completed"]
                    ELSE messages[k]]
  /\ sent' = [k \in 1..Len(toolResponses) |->
                [name |-> toolResponses[k].name,
                 response |-> toolResponses[k].result,
                 id |-> toolResponses[k].id]]
  /\ runPc' = "await"
  /\ UNCHANGED <<chatSession, isGenerating, runs, loopCount, response,
                 toolMsgId, toolResponses, executed, appVars, pureVars>>

\* one render of App and its commit, the preview left out
RenderFiles ==
  /\ updates # <<>>
  /\ files' = FilesAfter(files, updates)
  /\ selectedFile' = SelectedAfter(selectedFile, updates)
  /\ updates' = <<>>
  /\ filesRef' = IF refEffect THEN RunRefEffect(files) ELSE filesRef
  /\ refEffect' = (\E k \in 1..Len(updates) : updates[k].op \in {"create", "edit"})
  /\ UNCHANGED <<previewContent, srcdoc, docEffect, toolResult, written,
                 pureVars, chatVars>>

\* the pending effect that copies files to filesRef runs
FlushRefEffect ==
  /\ refEffect
  /\ filesRef' = RunRefEffect(files)
  /\ refEffect' = FALSE
  /\ UNCHANGED <<files, selectedFile, updates, previewContent, srcdoc,
                 docEffect, toolResult, written, pureVars, chatVars>>

NextChat ==
  \/ HandleSendMessage
  \/ \E resp \in Responses : ResolveRequest(resp)
  \/ RejectRequest
  \/ ExecuteCall
  \/ SendToolResponses
  \/ RenderFiles
  \/ FlushRefEffect

SpecChat == InitChat /\ [][NextChat]_vars

\* a pending sendMessage settles
Settle == (\E resp \in Responses : ResolveRequest(resp)) \/ RejectRequest

\* SpecChat with the progress the event loop gives: a pending request
\* settles, the continuation of an await runs, queued updates are rendered
\* and pending effects run
SpecChatFair ==
  /\ SpecChat
  /\ WF_vars(Settle)
  /\ WF_vars(ExecuteCall)
  /\ WF_vars(SendToolResponses)
  /\ WF_vars(RenderFiles)
  /\ WF_vars(FlushRefEffect)

----------------------------------------------------------------------------
(* Properties of resolveModuleSpecifier (SpecResolve) *)

\* The reference resolver, stated on positions: the segments of a string are
\* the stretches between its '/' separators.
SepPositions(s) == {i \in 1..Len(s) : s[i] = "/"}

NumSegments(s) == Cardinality(SepPositions(s)) + 1

\* position of the k-th separator; 0 before the first segment, Len(s)+1
\* after the last
SepAt(s, k) ==
  IF k = 0 THEN 0
  ELSE IF k = NumSegments(s) THEN Len(s) + 1
  ELSE CHOOSE i \in SepPositions(s) :
         Cardinality({j \in SepPositions(s) : j < i}) = k - 1

Segment(s, k) == SubSeq(s, SepAt(s, k - 1) + 1, SepAt(s, k) - 1)

\* the directory stack after the first n segments of the specifier
RECURSIVE RefStack(_, _, _)
RefStack(sourcePath, specifier, n) ==
  IF n = 0
  THEN [k \in 1..(NumSegments(sourcePath) - 1) |-> Segment(sourcePath, k)]
  ELSE LET before == RefStack(sourcePath, specifier, n - 1)
           seg    == Segment(specifier, n)
       IN  CASE seg = <<".">> -> before
             [] seg = <<".", ".">> ->
                  [k \in 1..(IF Len(before) = 0 THEN 0 ELSE Len(before) - 1)
                     |-> before[k]]
             [] OTHER -> before \o <<seg>>

RECURSIVE RefJoined(_, _)
RefJoined(stack, n) ==
  IF n = 0 THEN <<>>
  ELSE IF n = 1 THEN stack[1]
  ELSE RefJoined(stack, n - 1) \o <<"/">> \o stack[n]

RefResolve(sourcePath, specifier) ==
  CASE specifier = <<>> -> specifier
    [] specifier # <<>> /\ specifier[1] \notin {".", "/"} -> specifier
    [] specifier # <<>> /\ specifier[1] = "/" ->
         [k \in 1..(Len(specifier) - 1) |-> specifier[k + 1]]
    [] OTHER ->
         LET stack == RefStack(sourcePath, specifier, NumSegments(specifier))
         IN  RefJoined(stack, Len(stack))

\* the five documented examples
ResolverExamples ==
  /\ resolveModuleSpecifier(Str_src_a_b_js, <<".", "/", "c", ".", "js">>)
       = <<"src", "/", "a", "/", "c", ".", "js">>
  /\ resolveModuleSpecifier(Str_src_a_b_js, <<".", ".", "/", "c", ".", "js">>)
       = <<"src", "/", "c", ".", "js">>
  /\ resolveModuleSpecifier(Str_x_js,
         <<".", ".", "/", ".", ".", "/", "y", ".", "js">>)
       = <<"y", ".", "js">>
  /\ resolveModuleSpecifier(Str_x_js, <<"/", "z", ".", "js">>)
       = <<"z", ".", "js">>
  /\ resolveModuleSpecifier(Str_x_js, <<"preact">>) = <<"preact">>

\* C5: resolveModuleSpecifier returns, for every source path and specifier,
\* what the reference resolver returns (bare specifiers unchanged, a leading
\* '/' removed and nothing else, otherwise the specifier's segments applied
\* to the directory of the source path with '..' a no-op on the empty
\* directory), and the five documented examples hold.
C5_ResolverMatchesReference ==
  phase = "resolved" =>
    /\ rsResult = RefResolve(rsSource, rsSpecifier)
    /\ ResolverExamples

\* C5 witness: '..' applied past the root has been resolved without error
C5_Witness ==
  /\ phase = "resolved"
  /\ rsSource = Str_x_js
  /\ rsSpecifier = <<".", ".", "/", ".", ".", "/", "y", ".", "js">>
  /\ rsResult = <<"y", ".", "js">>

----------------------------------------------------------------------------
(* Properties of the import rewrite (SpecRewrite) *)

IsPrefix(t, s) == Len(t) <= Len(s) /\ SubSeq(s, 1, Len(t)) = t

Drop(s, n) == SubSeq(s, n + 1, Len(s))

\* the file with the specifier of every import statement resolved against
\* the file's path and every other character kept
RECURSIVE RefRewrite(_, _)
RefRewrite(path, stmts) ==
  IF Len(stmts) = 0 THEN <<>>
  ELSE LET st == stmts[1]
       IN  StmtText(st, IF st.kind \in ImportKinds
                        THEN resolveModuleSpecifier(path, st.spec)
                        ELSE st.spec)
             \o RefRewrite(path, Tail(stmts))

\* out is the file with every statement that is no import kept verbatim,
\* each import statement either kept or with its specifier resolved
RECURSIVE OnlyImportsAltered(_, _, _)
OnlyImportsAltered(out, path, stmts) ==
  IF Len(stmts) = 0 THEN out = <<>>
  ELSE LET st       == stmts[1]
           kept     == StmtText(st, st.spec)
           resolved == StmtText(st, resolveModuleSpecifier(path, st.spec))
       IN  \/ /\ IsPrefix(kept, out)
              /\ OnlyImportsAltered(Drop(out, Len(kept)), path, Tail(stmts))
           \/ /\ st.kind \in ImportKinds
              /\ IsPrefix(resolved, out)
              /\ OnlyImportsAltered(Drop(out, Len(resolved)), path, Tail(stmts))

OnlyImportStatements(stmts) ==
  \A k \in 1..Len(stmts) : stmts[k].kind \in ImportKinds

\* C6: the rewrite of a JS/TS file replaces the specifier of each static
\* import, export-from and dynamic import that starts with '.' or '/' by its
\* resolution against the file's path, keeps bare specifiers, and changes
\* nothing else.  Stated here for the files that hold import statements
\* only, so that strings outside import position (C7) play no part in it.
C6_RewriteResolvesEveryImport ==
  (phase = "rewritten" /\ OnlyImportStatements(rwStmts))
    => rwOnce = RefRewrite(rwPath, rwStmts)

\* C7: the rewrite leaves every quoted path that is not in import position
\* (a string constant, an argument of a call) unchanged.
C7_NonImportStringsUntouched ==
  phase = "rewritten" => OnlyImportsAltered(rwOnce, rwPath, rwStmts)

\* C8: rewriting the output of the rewrite again changes nothing.
C8_RewriteIdempotent ==
  phase = "rewrittenTwice" => rwTwice = rwOnce

----------------------------------------------------------------------------
(* Properties of the import map (SpecBuild) *)

\* the six keys under which a JS/TS file with canonical path p is expected
ExpectedAliases(p) ==
  LET q == StripExtension(p)
  IN  { p, <<".", "/">> \o p, <<"/">> \o p,
        q, <<".", "/">> \o q, <<"/">> \o q }

ScriptFileIndices(fs) ==
  {k \in 1..Len(fs) : IsScriptPath(fs[k][1])}

\* no other JS/TS file of the file system has an alias in common with file k
NoAliasCollision(fs, k) ==
  \A j \in ScriptFileIndices(fs) \ {k} :
    ExpectedAliases(CleanPath(fs[j][1]))
      \cap ExpectedAliases(CleanPath(fs[k][1])) = {}

\* C9: for every JS/TS file of the file system, with canonical path p and
\* p without its extension q, the import map has the keys p, ./p, /p, q,
\* ./q, /q, and unless another file aliases to one of them all six map to
\* the data URI that encodes this file.
C9_AliasCompleteness ==
  phase = "built" =>
    \A k \in ScriptFileIndices(bpFiles) :
      LET keys == ExpectedAliases(CleanPath(bpFiles[k][1]))
          uri  == DataUri(processFile(bpFiles[k][1], bpFiles[k][2].content))
      IN  /\ Cardinality(keys) = 6
          /\ keys \subseteq ObjKeys(bpImports)
          /\ NoAliasCollision(bpFiles, k) =>
               \A key \in keys : ObjGet(bpImports, key) = uri

\* C9 witness: src/main.js has been built into the map under its six aliases
C9_Witness ==
  /\ phase = "built"
  /\ ObjHas(bpFiles, Str_src_main_js)
  /\ Len(bpFiles) = 2
  /\ { Str_src_main_js,
       <<".", "/", "src", "/", "main", ".", "js">>,
       <<"/", "src", "/", "main", ".", "js">>,
       <<"src", "/", "main">>,
       <<".", "/", "src", "/", "main">>,
       <<"/", "src", "/", "main">> } \subseteq ObjKeys(bpImports)
  /\ ObjGet(bpImports, <<".", "/", "src", "/", "main">>)
       = <<"data:text/javascript;charset=utf-8,", "text">>

\* C10: whatever the file system holds, the import map maps 'preact',
\* 'preact/hooks', 'htm', 'canvas-confetti' and 'gsap' to their pinned CDN
\* URLs.
C10_FixedRegistryKept ==
  phase = "built" =>
    /\ ObjHas(bpImports, Key_preact)
    /\ ObjGet(bpImports, Key_preact) = Url_preact
    /\ ObjHas(bpImports, Key_hooks)
    /\ ObjGet(bpImports, Key_hooks) = Url_hooks
    /\ ObjHas(bpImports, Key_htm)
    /\ ObjGet(bpImports, Key_htm) = Url_htm
    /\ ObjHas(bpImports, Key_confetti)
    /\ ObjGet(bpImports, Key_confetti) = Url_confetti
    /\ ObjHas(bpImports, Key_gsap)
    /\ ObjGet(bpImports, Key_gsap) = Url_gsap

----------------------------------------------------------------------------
(* Properties of the App component (Spec) *)

\* the VFS once every queued update is applied
LatestFiles == FilesAfter(files, updates)

HoldsShell(fs) ==
  /\ ObjHas(fs, Str_index_html)
  /\ ObjGet(fs, Str_index_html).content = ShellHtml
  /\ Cardinality({k \in 1..Len(fs) : fs[k][1] = Str_index_html}) = 1

\* C1: in every reachable state the VFS, as rendered and with every queued
\* update applied, holds exactly one entry 'index.html' whose content is the
\* initial shell; a create_file call with path 'index.html' returns the
\* read-only rejection and changes neither the files nor the queued updates;
\* an editor edit while 'index.html' is selected changes neither.
C1_ShellImmutable ==
  /\ [](HoldsShell(files) /\ HoldsShell(LatestFiles))
  /\ [][\A content \in AppContents :
          CreateFile(Str_index_html, content)
            => /\ toolResult'.result = ReadOnlyError
               /\ UNCHANGED <<files, updates>>]_vars
  /\ [][\A newContent \in AppContents :
          (selectedFile = Str_index_html /\ HandleFileChange(newContent))
            => UNCHANGED <<files, updates>>]_vars

\* a write to 'index.html' was rejected while the VFS held other files
C1_Witness ==
  /\ toolResult.name = "create_file"
  /\ toolResult.result = ReadOnlyError
  /\ Len(files) > 1
  /\ selectedFile # Str_index_html

\* C2: with every queued update applied, the VFS holds exactly the paths
\* written so far, once each; every written path holds the content of the last
\* write to it, its own name and the language of its extension; 'index.html',
\* never written, keeps its initial record.
C2_UpsertLastWriteWins ==
  /\ {LatestFiles[k][1] : k \in 1..Len(LatestFiles)} = DOMAIN written
  /\ Len(LatestFiles) = Cardinality(DOMAIN written)
  /\ \A p \in DOMAIN written :
       /\ ObjGet(LatestFiles, p).content = written[p]
       /\ ObjGet(LatestFiles, p).name = p
       /\ ObjGet(LatestFiles, p).language = getLanguageFromFilename(p)
  /\ ObjGet(LatestFiles, Str_index_html) = ObjGet(INITIAL_FILES, Str_index_html)
  /\ updates = <<>> => files = LatestFiles

\* two create_file calls for different paths are queued in one batch, the
\* first of them overwriting a file that is already rendered
C2_Witness ==
  /\ Len(updates) = 2
  /\ updates[1].op = "create" /\ updates[2].op = "create"
  /\ updates[1].path # updates[2].path
  /\ ObjHas(files, updates[1].path)
  /\ ObjGet(files, updates[1].path).content # updates[1].content

\* C3: read_file(path) returns the content of the last write to path that
\* has returned, and the not-found error only for a path never written;
\* list_files lists every path written so far.
C3_ReadsSeeLatestWrite ==
  /\ [][\A path \in AppPaths :
          ReadFile(path)
            => toolResult'.result = IF path \in DOMAIN written
                                    THEN written[path]
                                    ELSE NotFoundError(path)]_vars
  /\ [][ListFiles => toolResult'.result = JsonKeys(LatestFiles)]_vars

\* no update queued and no effect of Preview pending
PreviewSettled == updates = <<>> /\ ~docEffect

\* C4: once no update is queued and the effect of Preview has run, the
\* document of the iframe is buildPreviewContent of the rendered files; and
\* whenever the document of the iframe changes, the new document is
\* buildPreviewContent of the files of the latest commit.
C4_PreviewShowsLatestBuild ==
  /\ [](PreviewSettled => srcdoc = buildPreviewContent(files))
  /\ [][srcdoc' # srcdoc => srcdoc' = buildPreviewContent(files)]_vars

\* the iframe holds the build of a VFS with created files, after a build of
\* an older snapshot was shown
C4_Witness ==
  /\ PreviewSettled
  /\ Len(files) = 3
  /\ srcdoc = previewContent
  /\ srcdoc # buildPreviewContent(INITIAL_FILES)

----------------------------------------------------------------------------
(* Properties of buildPreviewContent (SpecBuild), continued *)

FixedKeys == {Key_preact, Key_hooks, Key_htm, Key_confetti, Key_gsap}

\* the JS/TS files of fs that register key
OwnersOf(fs, key) ==
  {k \in ScriptFileIndices(fs) : key \in ExpectedAliases(CleanPath(fs[k][1]))}

\* C11: the keys of the import map are the five fixed keys and the aliases
\* of the JS/TS files, so that index.html, CSS, JSON and other files
\* contribute none; a key that a JS/TS file registers maps to the data URI
\* of the rewritten content of such a file, and to the data URI of no raw
\* content that the rewrite changes.
C11_LocalEntriesAreRewrittenScripts ==
  phase = "built" =>
    /\ ObjKeys(bpImports)
         = FixedKeys
             \cup UNION {ExpectedAliases(CleanPath(bpFiles[k][1])) :
                           k \in ScriptFileIndices(bpFiles)}
    /\ \A key \in ObjKeys(bpImports) :
         LET owners == OwnersOf(bpFiles, key)
         IN  /\ owners = {} => key \in FixedKeys
             /\ owners # {} =>
                  \E k \in owners :
                    /\ ObjGet(bpImports, key)
                         = DataUri(processFile(bpFiles[k][1],
                                               bpFiles[k][2].content))
                    /\ processFile(bpFiles[k][1], bpFiles[k][2].content)
                         # bpFiles[k][2].content
                       => ObjGet(bpImports, key)
                            # DataUri(bpFiles[k][2].content)

\* src/main.js, which imports './a.js', is built next to a style sheet:
\* its resource holds the import of 'src/a.js'
C11_Witness ==
  /\ phase = "built"
  /\ ObjHas(bpFiles, Str_style_css)
  /\ ObjHas(bpFiles, Str_src_main_js)
  /\ ObjGet(bpFiles, Str_src_main_js).content = Text_import_a
  /\ ObjGet(bpImports, Str_src_main_js)
       = <<"data:text/javascript;charset=utf-8,",
           "import", "%20", "x", "%20", "from", "%20", "'",
           "src", "%2F", "a", ".", "js", "'", "%3B">>

\* the statements of the enumerated JS/TS contents that hold imports
SourceStmts ==
  { << [kind |-> "importFrom", quote |-> "'",
        spec |-> <<".", "/", "a", ".", "js">>] >>,
    << [kind |-> "importSide", quote |-> "'",
        spec |-> <<".", "/", "a", ".", "js">>],
       [kind |-> "importFrom", quote |-> "'",
        spec |-> <<".", "/", "a", ".", "js">>] >>,
    << [kind |-> "importFrom", quote |-> "'",
        spec |-> <<".", "/", "a">>] >> }

\* the import statements of a content; none for a content without imports
StmtsOf(content) ==
  IF \E ss \in SourceStmts : FileText(ss) = content
  THEN CHOOSE ss \in SourceStmts : FileText(ss) = content
  ELSE <<>>

\* the JS/TS files of fs whose path, or path without extension, is r
TargetsOf(fs, r) ==
  {g \in ScriptFileIndices(fs) :
     r = fs[g][1] \/ r = StripExtension(fs[g][1])}

\* out is the text of stmts, each specifier kept or resolved, and every
\* specifier it holds whose resolution names a JS/TS file of fs is a key of
\* imp that maps to the resource of that file
RECURSIVE ReferencesSatisfied(_, _, _, _, _)
ReferencesSatisfied(out, path, stmts, fs, imp) ==
  IF Len(stmts) = 0 THEN out = <<>>
  ELSE LET st      == stmts[1]
           targets == TargetsOf(fs, resolveModuleSpecifier(path, st.spec))
       IN  \E held \in {st.spec, resolveModuleSpecifier(path, st.spec)} :
             /\ IsPrefix(StmtText(st, held), out)
             /\ (st.kind \in ImportKinds /\ st.spec[1] \in {".", "/"}
                   /\ targets # {})
                  => /\ ObjHas(imp, held)
                     /\ \A g \in targets :
                          NoAliasCollision(fs, g)
                            => ObjGet(imp, held)
                                 = DataUri(processFile(fs[g][1],
                                                       fs[g][2].content))
             /\ ReferencesSatisfied(Drop(out, Len(StmtText(st, held))),
                                    path, Tail(stmts), fs, imp)

\* C12: for every JS/TS file and every import in it whose specifier starts
\* with '.' or '/' and resolves to the path of a JS/TS file of the VFS, or
\* to that path without its extension, the specifier that the rewritten
\* file holds is a key of the import map and, unless another file aliases
\* to the same key, maps to the resource of the file it resolves to.
C12_MapSatisfiesReferences ==
  phase = "built" =>
    \A k \in ScriptFileIndices(bpFiles) :
      StmtsOf(bpFiles[k][2].content) # <<>>
        => ReferencesSatisfied(processFile(bpFiles[k][1], bpFiles[k][2].content),
                               bpFiles[k][1], StmtsOf(bpFiles[k][2].content),
                               bpFiles, bpImports)

\* fs with the built-in shell as index.html
WithShell(fs) ==
  IF ObjHas(fs, Str_index_html)
  THEN ObjSet(fs, Str_index_html,
              ProjectFile(Str_index_html, ShellHtml, "html"))
  ELSE INITIAL_FILES \o fs

\* index.html is absent from fs or its content is the empty string
ShellMissing(fs) ==
  ~ObjHas(fs, Str_index_html) \/ ObjGet(fs, Str_index_html).content = <<>>

\* C13: buildPreviewContent returns a document for every VFS and never
\* throws; for a VFS without index.html, or with an empty one, the document
\* is the build of the same VFS with the built-in shell as index.html.
C13_BuildIsTotal ==
  /\ phase # "thrown"
  /\ (phase = "built" /\ ShellMissing(bpFiles))
       => bpDoc = buildPreviewContent(WithShell(bpFiles))

\* the entry document of fs after its module scripts are made inline
InlinedEntry(fs) == inlineModuleScripts(entryDocument(fs))

\* t occurs in s from index i on
OccursAt(s, i, t) ==
  i >= 1 /\ i + Len(t) - 1 <= Len(s) /\ SubSeq(s, i, i + Len(t) - 1) = t

Occurrences(s, t) == {i \in 1..Len(s) : OccursAt(s, i, t)}

\* C15: the assembled document holds the error script exactly once; when
\* the entry document has an opening body tag the script stands right after
\* that tag, followed by the rest of the entry document; otherwise the
\* script ends the document.
C15_ErrorScriptAfterBody ==
  phase = "built" =>
    LET entry == InlinedEntry(bpFiles)
    IN  /\ Cardinality(Occurrences(bpDoc, errorScript)) = 1
        /\ IF Includes(entry, "<body>")
           THEN LET b    == IndexOf(entry, "<body>")
                    rest == SubSeq(entry, b + 1, Len(entry))
                    at   == Len(bpDoc) - Len(rest) - Len(errorScript)
                IN  /\ at >= 1
                    /\ bpDoc[at] = "<body>"
                    /\ OccursAt(bpDoc, at + 1, errorScript)
                    /\ OccursAt(bpDoc, at + 1 + Len(errorScript), rest)
           ELSE OccursAt(bpDoc, Len(bpDoc) - Len(errorScript) + 1, errorScript)

\* the import-map block followed by the style block
HeadBlocks(fs) == importMapScript(fs) \o styleTag(fs)

\* the entry document with the two blocks right after its first opening
\* head tag, or before the whole document when it has none
ExpectedHead(entry, fs) ==
  IF Includes(entry, "<head>")
  THEN LET h == IndexOf(entry, "<head>")
       IN  SubSeq(entry, 1, h) \o HeadBlocks(fs)
             \o SubSeq(entry, h + 1, Len(entry))
  ELSE HeadBlocks(fs) \o entry

\* C16: the document is the entry document with the import-map block and
\* then the style block placed right after its first opening head tag, or
\* before the whole document when the entry document has no head tag, and
\* nothing else of the entry document changed by that step (the error
\* script is then placed in the result).
C16_BlocksAfterHead ==
  phase = "built" =>
    bpDoc = injectBody(ExpectedHead(InlinedEntry(bpFiles), bpFiles))

\* the comment and content of the CSS files k..Len(fs) of fs, in order
CssPieces(fs) ==
  [k \in 1..Len(fs) |->
     IF EndsWithCss(fs[k][1])
     THEN <<"\n", "/*", " ">> \o fs[k][1] \o <<" ", "*/", "\n">>
            \o fs[k][2].content \o <<"\n">>
     ELSE <<>>]

\* the style block the assembler is to inject
ExpectedStyle(fs) ==
  <<"<style>">> \o ConcatRange(CssPieces(fs), 1, Len(fs)) \o <<"</style>">>

\* C17: the assembled document holds, exactly once, a style block made of
\* the content of every CSS file, verbatim and in order, each after a
\* comment that names its path; without CSS files that block is empty.
C17_OneStyleBlockWithAllCss ==
  phase = "built" =>
    Cardinality(Occurrences(bpDoc, ExpectedStyle(bpFiles))) = 1

\* <script type="module">import "target"</script>
InlineImport(target) ==
  <<"<script type=\"module\">", "import", " ", "\"">> \o target
    \o <<"\"", "</script>">>

\* the lengths n for which s holds, from i on, a module-script reference
\* whose src value has n lexemes
SrcLengthsAt(s, i) ==
  {n \in 1..Len(s) :
     \E q \in {"'", "\""} :
       /\ i + 8 + n <= Len(s)
       /\ \A j \in (i + 9)..(i + 8 + n) : s[j] \notin {"'", "\""}
       /\ OccursAt(s, i, ModuleScriptTag(q, SubSeq(s, i + 9, i + 8 + n)))}

\* s from i on, with every module-script reference replaced by the inline
\* import of its src value resolved against index.html
RECURSIVE RefInline(_, _)
RefInline(s, i) ==
  IF i > Len(s) THEN <<>>
  ELSE IF SrcLengthsAt(s, i) # {}
       THEN LET n == CHOOSE n \in SrcLengthsAt(s, i) : TRUE
            IN  InlineImport(RefResolve(Str_index_html,
                                        SubSeq(s, i + 9, i + 8 + n)))
                  \o RefInline(s, i + 11 + n)
       ELSE <<s[i]>> \o RefInline(s, i + 1)

\* s holds a script tag with type module and a src attribute
HasModuleSrc(s) ==
  \E i \in 1..Len(s) :
    /\ i + 7 <= Len(s)
    /\ s[i] = "<script" /\ s[i + 2] = "type=" /\ s[i + 4] = "module"
    /\ s[i + 7] = "src="

\* C18: every module-script reference of the entry document is replaced by
\* an inline module script that imports the src value resolved against
\* 'index.html', and the assembled document holds no module script with a
\* src attribute; built from the shell, it imports "src/main.js", which is
\* a key of the import map when the VFS holds 'src/main.js'.
C18_ModuleScriptsInlined ==
  phase = "built" =>
    /\ InlinedEntry(bpFiles) = RefInline(entryDocument(bpFiles), 1)
    /\ ~HasModuleSrc(bpDoc)
    /\ entryDocument(bpFiles) = ShellHtml =>
         /\ Occurrences(bpDoc, InlineImport(Str_src_main_js)) # {}
         /\ ObjHas(bpFiles, Str_src_main_js)
              => ObjHas(bpImports, Str_src_main_js)

\* an entry document with two module scripts is built next to src/main.js:
\* both are inline in the document
C18_Witness ==
  /\ phase = "built"
  /\ ObjHas(bpFiles, Str_index_html)
  /\ ObjGet(bpFiles, Str_index_html).content = BareDoc
  /\ ObjHas(bpFiles, Str_src_main_js)
  /\ Occurrences(bpDoc, InlineImport(Str_src_a_js)) # {}
  /\ Occurrences(bpDoc, InlineImport(Str_src_main_js)) # {}

\* the orders in which the created files of fs can have been inserted:
\* the permutations of its entries that leave index.html where it is
InsertionOrders(fs) ==
  {f \in [1..Len(fs) -> 1..Len(fs)] :
     /\ \A i, j \in 1..Len(fs) : f[i] = f[j] => i = j
     /\ \A i \in 1..Len(fs) : fs[i][1] = Str_index_html => f[i] = i}

Reordered(fs, f) == [k \in 1..Len(fs) |-> fs[f[k]]]

\* C19: the document built from a VFS is the document built from any VFS
\* that holds the same files inserted in another order.
C19_InsertionOrderIrrelevant ==
  phase = "built" =>
    \A f \in InsertionOrders(bpFiles) :
      buildPreviewContent(Reordered(bpFiles, f)) = bpDoc

\* the data URI registered for file k of fs
ResourceOf(fs, k) == DataUri(processFile(fs[k][1], fs[k][2].content))

\* the file that registers key and comes last in the order of fs
LastOwner(fs, key) ==
  CHOOSE k \in OwnersOf(fs, key) : \A j \in OwnersOf(fs, key) : j <= k

\* every key that two or more files register maps to the resource of the
\* last of them
LastRegisteredWins(fs, imp) ==
  \A key \in ObjKeys(imp) :
    Cardinality(OwnersOf(fs, key)) >= 2
      => ObjGet(imp, key) = ResourceOf(fs, LastOwner(fs, key))

\* file k of fs shares an alias with another JS/TS file
Collides(fs, k) == ~NoAliasCollision(fs, k)

\* the full path of every colliding file maps to that file's resource
FullPathKeysKept(fs, imp) ==
  \A k \in ScriptFileIndices(fs) :
    Collides(fs, k) => ObjGet(imp, CleanPath(fs[k][1])) = ResourceOf(fs, k)

\* fs after create_file overwrites the file at position k with content
Overwritten(fs, k, content) ==
  ApplyToFiles(fs, CreateUpdate(fs[k][1], content))

\* C20: a key that several JS/TS files alias to maps to the resource of the
\* file that comes last in the order of the VFS; create_file on an existing
\* path leaves the path at its position, so the same file wins after an
\* overwrite; the full-path keys of the colliding files map to their own
\* files.
C20_LastRegisteredWins ==
  phase = "built" =>
    /\ LastRegisteredWins(bpFiles, bpImports)
    /\ FullPathKeysKept(bpFiles, bpImports)
    /\ \A k \in ScriptFileIndices(bpFiles) :
         \A content \in BuildContentsOf(bpFiles[k][1]) \ {Text_surrogate} :
           LET fs2 == Overwritten(bpFiles, k, content)
           IN  /\ Len(fs2) = Len(bpFiles)
               /\ fs2[k][1] = bpFiles[k][1]
               /\ fs2[k][2].content = content
               /\ LastRegisteredWins(fs2, imports(fs2))

----------------------------------------------------------------------------
(* Properties of the App component (Spec), continued *)

\* the selection once every queued update is applied
LatestSelected == SelectedAfter(selectedFile, updates)

\* C23: in every state the selected file, as rendered and with every queued
\* update applied, is a key of the VFS (it is never null here: nothing sets
\* it to null), so the editor reads the record of a file that exists; no
\* step removes a path; an editor edit adds no path.
C23_SelectedFileInVfs ==
  /\ [](/\ selectedFile # <<>> => ObjHas(files, selectedFile)
        /\ LatestSelected # <<>> => ObjHas(LatestFiles, LatestSelected))
  /\ [][ObjKeys(files) \subseteq ObjKeys(files')]_vars
  /\ [][\A newContent \in AppContents :
          HandleFileChange(newContent)
            => ObjKeys(FilesAfter(files', updates')) = ObjKeys(LatestFiles)]_vars

\* an edit of the created and selected src/main.js is queued while the VFS
\* holds three files
C23_Witness ==
  /\ selectedFile = Str_src_main_js
  /\ Len(files) = 3
  /\ Len(updates) = 1
  /\ updates[1].op = "edit"

----------------------------------------------------------------------------
(* Properties of handleSendMessage (SpecChat, SpecChatFair) *)

\* C21: every run that has set isGenerating to true (the run counted r,
\* whatever it meets: a text reply, tool calls, a failing tool, a rejected
\* request, the round limit) leads to isGenerating being false again before
\* another run starts; a call made while there is no chat session changes
\* neither isGenerating nor messages.
C21_GeneratingEventuallyReset ==
  /\ \A r \in 1..MaxRuns :
       (runs = r /\ isGenerating) ~> (runs = r /\ ~isGenerating)
  /\ [][(runs' # runs /\ ~chatSession)
          => (isGenerating' = isGenerating /\ messages' = messages)]_vars

\* a run has ended at the round limit with function calls left unexecuted,
\* one of its rounds having had a failing read_file, and isGenerating is
\* false again
C21_Witness ==
  /\ runs = 1
  /\ runPc = "idle"
  /\ ~isGenerating
  /\ loopCount = MAX_LOOPS
  /\ Len(response.functionCalls) > 0
  /\ \E k \in 1..Len(toolResponses) :
       toolResponses[k].result = NotFoundError(Str_src_main_js)

\* the calls of the current response, in order
CurrentCalls == response.functionCalls

\* the limit is reached and the run is past its last round
PastLimit == loopCount = MAX_LOOPS /\ runPc \in {"await", "idle"}

\* C22: a run makes at most MAX_LOOPS rounds; within a round the calls
\* executed so far are the first calls of the response, each once and in
\* order; the tool responses are sent when every call has been executed,
\* one per call and in the calls' order; once the round limit is reached
\* no further call is executed and nothing more is written to the VFS.
C22_AtMostMaxLoopsRounds ==
  /\ [](loopCount <= MAX_LOOPS)
  /\ [](runPc = "exec"
          => /\ Len(executed) <= Len(CurrentCalls)
             /\ executed = SubSeq(CurrentCalls, 1, Len(executed))
             /\ Len(toolResponses) = Len(executed))
  /\ [][(runPc = "exec" /\ runPc' = "await")
          => /\ executed = CurrentCalls
             /\ Len(sent') = Len(CurrentCalls)
             /\ \A k \in 1..Len(CurrentCalls) :
                  /\ sent'[k].name = CurrentCalls[k].call.name
                  /\ sent'[k].id = CurrentCalls[k].id]_vars
  /\ [][loopCount' > loopCount => loopCount' = loopCount + 1]_vars
  /\ [][PastLimit
          => /\ executed' = executed
             /\ written' = written
             /\ updates' \in {updates, <<>>}
             /\ ObjKeys(FilesAfter(files', updates')) = ObjKeys(LatestFiles)]_vars

\* the run has ended at the round limit while the last response asked for
\* src/main.js to be created, and src/main.js was never written
C22_Witness ==
  /\ runPc = "idle"
  /\ loopCount = MAX_LOOPS
  /\ Len(CurrentCalls) = 2
  /\ CurrentCalls[1].call.name = "create_file"
  /\ CurrentCalls[1].call.path = Str_src_main_js
  /\ ~ObjHas(LatestFiles, Str_src_main_js)
  /\ Str_src_main_js \notin DOMAIN written

====
